---- MODULE Spec2Model ----
(***************************************************************************)
(* Model of the two edge functions that e-mail the owners of lost items    *)
(* when a found item of the same category is reported:                     *)
(*   variant "A"  notify-lost-on-found (found item pushed in the payload)  *)
(*   variant "B"  notify-matches       (found item looked up by id)        *)
(* and of the client-side template composeFoundMatchEmail.                 *)
(*                                                                         *)
(* Contact strings and e-mail addresses are sequences of one-character     *)
(* strings, so that trim(), includes("@") and the e-mail regular           *)
(* expression are computed character by character.  Rendered templates    *)
(* are sequences of text fragments; an interpolated field is one fragment. *)
(***************************************************************************)
EXTENDS Integers, Sequences, FiniteSets, TLC

VARIABLES variant, env, pc, req, found, lostItems, recipients,
          missingEmailUserIds, idx, usedContact, lookupFor, lookedUp,
          toList, mail, attempts, results, sent, failures, resp, storeFailed

vars == <<variant, env, pc, req, found, lostItems, recipients,
          missingEmailUserIds, idx, usedContact, lookupFor, lookedUp,
          toList, mail, attempts, results, sent, failures, resp, storeFailed>>

\* ------------------------------------------------------------------ bounds
\* Largest number of rows the items table holds when it is queried.
MaxItems == 2

\* ------------------------------------------------------------ value domains
\* JavaScript null for a character string (a fragment no real string holds).
NULL == <<"<null>">>
\* JavaScript null / SQL NULL for an id or a text column.
NullId == "<null>"

Range(s) == {s[i] : i \in 1..Len(s)}

\* Truthiness of a character string: null and "" are falsy.
Truthy(s) == s # NULL /\ s # <<>>
\* Truthiness of an id or a text field: null and "" are falsy.
TruthyTxt(t) == t # NullId /\ t # ""

\* "a@b.c", " a@b.c" (leading blank), "a@b" (no dot), "d@e.f"
AddrABC == <<"a", "@", "b", ".", "c">>
AddrABCBlank == <<" ", "a", "@", "b", ".", "c">>
AddrNoDot == <<"a", "@", "b">>
AddrDEF == <<"d", "@", "e", ".", "f">>

ContactInfos == {NULL, AddrABC, AddrABCBlank, AddrNoDot}
AccountEmails == {AddrABC, AddrDEF}
UserIds == {"u1", "u2", "u3"}
Categories == {"Electronics", "Keys"}
ItemTypes == {"lost", "found"}
ItemStatuses == {"active", "resolved"}

\* ------------------------------------------------------- string functions
IsSpace(c) == c = " "

RECURSIVE TrimStart(_)
TrimStart(s) == IF s # <<>> /\ IsSpace(Head(s)) THEN TrimStart(Tail(s)) ELSE s

RECURSIVE TrimEnd(_)
TrimEnd(s) ==
  IF s # <<>> /\ IsSpace(s[Len(s)]) THEN TrimEnd(SubSeq(s, 1, Len(s) - 1)) ELSE s

\* String.prototype.trim
Trim(s) == TrimEnd(TrimStart(s))

\* String.prototype.includes for a one-character needle
Includes(s, c) == \E k \in 1..Len(s) : s[k] = c

\* /^[^\s@]+@[^\s@]+\.[^\s@]+$/.test(s): an "@" at i with a non-empty run
\* before it, a "." at j with a non-empty run between and after, and no
\* blank or further "@" anywhere else.
EmailRegexTest(s) ==
  \E i \in 1..Len(s), j \in 1..Len(s) :
     /\ 1 < i /\ i + 1 < j /\ j < Len(s)
     /\ s[i] = "@"
     /\ s[j] = "."
     /\ \A k \in (1..Len(s)) \ {i} : ~IsSpace(s[k]) /\ s[k] # "@"

isEmail(value) == IF ~Truthy(value) THEN FALSE ELSE EmailRegexTest(Trim(value))

\* Variant B's test: contact && contact.includes("@")
HasAt(contact) == Truthy(contact) /\ Includes(contact, "@")

\* A contiguous occurrence of the fragments `part` in `text`.
Contains(text, part) ==
  \E k \in 0..(Len(text) - Len(part)) :
     \A n \in 1..Len(part) : text[k + n] = part[n]

\* ---------------------------------------------------------- found items
NoFound ==
  [user_id |-> NullId, category |-> NullId, title |-> NullId,
   description |-> NullId, location |-> NullId]

\* Found items a caller of variant A may push (FoundItemPayload); category
\* and user_id may be missing.
FoundItemsA ==
  [user_id : {"u1", NullId}, category : Categories \cup {""},
   title : {"iPhone 13"}, description : {"Black case"},
   location : {"Library"}]

\* Rows of the items table a lookup by id may return in variant B.
FoundItemsB ==
  [user_id : {"u1", NullId}, category : Categories,
   title : {"iPhone 13"}, description : {"Black case"},
   location : {"Library"}]

\* Inputs of the template functions checked on their own.
ComposeInputs ==
  [user_id : {"u1"}, category : Categories,
   title : {"Blue Backpack", "iPhone 13"},
   description : {NullId, "", "Navy blue"},
   location : {NullId, "", "Library"}]

\* ------------------------------------------------------------- templates
NoMail == [by |-> "none", subject |-> <<>>, html |-> <<>>]

RECURSIVE JoinItems(_)
\* lines.map((l) => `<li>${l}</li>`).join("")
JoinItems(lines) ==
  IF lines = <<>> THEN <<>>
  ELSE <<"<li>">> \o Head(lines) \o <<"</li>">> \o JoinItems(Tail(lines))

\* The lines composeFoundMatchEmail pushes without testing the field.
composeFoundMatchEmailLinesUnguarded(f) ==
  << <<"Someone just reported a found item in the ", f.category, " category.">>,
     <<"Title: ", f.title>>,
     <<"Description: ", f.description>>,
     <<"Location: ", f.location>> >>

composeFoundMatchEmailLines(f) ==
  << <<"Someone just reported a found item in the ", f.category, " category.">>,
     <<"Title: ", f.title>> >>
  \o (IF TruthyTxt(f.description) THEN << <<"Description: ", f.description>> >> ELSE <<>>)
  \o (IF TruthyTxt(f.location) THEN << <<"Location: ", f.location>> >> ELSE <<>>)

composeFoundMatchEmail(f) ==
  LET lines == composeFoundMatchEmailLines(f) IN
  [by |-> "composeFoundMatchEmail",
   subject |-> <<"New found item in ", f.category, " may match your lost item">>,
   html |-> <<"<div><h2>Possible match for your lost item</h2><p>">>
            \o lines[1]
            \o <<"</p><ul>">>
            \o JoinItems(Tail(lines))
            \o <<"</ul><p>Visit the app to review details and contact the finder.</p></div>">>]

composeEmail(f) ==
  [by |-> "composeEmail",
   subject |-> <<"New found item in ", f.category, " may match your lost item">>,
   html |-> <<"<div><h2>Possible match for your lost item</h2><p>Someone just reported a <strong>found</strong> item in the <strong>",
              f.category,
              "</strong> category.</p><ul><li><strong>Title:</strong> ",
              f.title, "</li>">>
            \o (IF TruthyTxt(f.description)
                THEN <<"<li><strong>Description:</strong> ", f.description, "</li>">>
                ELSE <<>>)
            \o (IF TruthyTxt(f.location)
                THEN <<"<li><strong>Location:</strong> ", f.location, "</li>">>
                ELSE <<>>)
            \o <<"</ul><p>Visit the app to review details and contact the finder.</p></div>">>]

\* The subject and htmlBody variant B builds inline.
composeMatchEmailB(f) ==
  [by |-> "notify-matches",
   subject |-> <<"Possible match: Found item in ", f.category>>,
   html |-> <<"<div><h2>We found a potential match in ", f.category>>
            \o (IF TruthyTxt(f.title) THEN <<": \"", f.title, "\"">> ELSE <<>>)
            \o <<"</h2><p>Someone just reported a found item in the <strong>",
                 f.category, "</strong> category.</p>",
                 "<p><strong>Title:</strong> ", f.title, "</p>">>
            \o (IF TruthyTxt(f.description)
                THEN <<"<p><strong>Description:</strong> ", f.description, "</p>">>
                ELSE <<>>)
            \o (IF TruthyTxt(f.location)
                THEN <<"<p><strong>Location:</strong> ", f.location, "</p>">>
                ELSE <<>>)
            \o <<"<p>Visit Campus Finder to view details and contact the finder.</p></div>">>]

\* -------------------------------------------------------------- responses
NoResp == [status |-> 0, ctype |-> "none", body |-> [text |-> ""]]
Json(status, body) == [status |-> status, ctype |-> "json", body |-> body]
Text(status, text) == [status |-> status, ctype |-> "text", body |-> [text |-> text]]

\* What the HTTP runtime answers when the handler's promise rejects.
RuntimeError == Text(500, "Internal Server Error")

Undefined == "<undefined>"

\* ------------------------------------------------------------ item store
\* Active lost items of any category, owner and contact, and found or
\* resolved items (one owner and contact each: the query never returns them).
ItemRows ==
  [type : {"lost"}, status : {"active"}, category : Categories,
   user_id : UserIds \cup {NullId}, contact_info : ContactInfos]
  \cup {r \in [type : ItemTypes, status : ItemStatuses, category : Categories,
               user_id : {"u2"}, contact_info : {AddrABC}] :
          r.type # "lost" \/ r.status # "active"}

\* The contents of the items table at the time of the query.
Tables == UNION {[1..n -> ItemRows] : n \in 0..MaxItems}

\* .eq("type", "lost").eq("status", "active").eq("category", category)
MatchesLost(row, category) ==
  row.type = "lost" /\ row.status = "active" /\ row.category = category

\* if (foundItem?.user_id) lostQuery = lostQuery.neq("user_id", ...);
\* SQL's <> is not true of a NULL owner, so such rows are filtered out too.
NotReporter(row, f) ==
  IF TruthyTxt(f.user_id)
  THEN row.user_id # NullId /\ row.user_id # f.user_id
  ELSE TRUE

LostQueryA(table, f) ==
  SelectSeq(table, LAMBDA row : MatchesLost(row, f.category))

LostQueryB(table, f) ==
  SelectSeq(table, LAMBDA row : MatchesLost(row, f.category) /\ NotReporter(row, f))

\* An error result of the lost-items query taken for a success.
lostErrorIgnored(result) == FALSE

\* if (lostError) ... in variant A: the query result carries an error.
lostError(result) == result.error

\* Results of a table query: an error with no data, or the rows.
QueryResults == {[error |-> TRUE, table |-> <<>>]}
                \cup {[error |-> FALSE, table |-> t] : t \in Tables}

\* --------------------------------------------------------- JavaScript Set
\* A Set that keeps an element every time it is added.
SetAddKeepingDuplicates(set, e) == Append(set, e)

\* Set.prototype.add: insertion order, an element already present is kept once.
SetAdd(set, e) == IF e \in Range(set) THEN set ELSE Append(set, e)

\* ------------------------------------------------------- account lookups
\* auth.admin.getUserById(uid): throws, returns an error with no user, or
\* returns a user with or without an e-mail address.
LookupResults(uid) ==
  {[thrown |-> TRUE, error |-> FALSE, email |-> NULL],
   [thrown |-> FALSE, error |-> TRUE, email |-> NULL]}
  \cup (IF uid = NullId THEN {}
        ELSE {[thrown |-> FALSE, error |-> FALSE, email |-> e] :
                 e \in AccountEmails \cup {NULL}})

\* Variant A's lookup without its try/catch.
ResolveLookupAUncaught(recips, res) ==
  IF res.thrown THEN [recipients |-> recips, rethrown |-> TRUE]
  ELSE [recipients |-> IF Truthy(res.email) THEN SetAdd(recips, res.email) ELSE recips,
        rethrown |-> FALSE]

\* try { const { data } = await getUserById(uid); if (email) add } catch {}
ResolveLookupA(recips, res) ==
  IF res.thrown THEN [recipients |-> recips, rethrown |-> FALSE]
  ELSE [recipients |-> IF Truthy(res.email) THEN SetAdd(recips, res.email) ELSE recips,
        rethrown |-> FALSE]

\* Variant B: the email is added only when there is no userErr.
ResolveLookupB(recips, res) ==
  IF res.thrown THEN [recipients |-> recips, rethrown |-> FALSE]
  ELSE IF ~res.error
       THEN [recipients |-> IF Truthy(res.email) THEN SetAdd(recips, res.email) ELSE recips,
             rethrown |-> FALSE]
       ELSE [recipients |-> recips, rethrown |-> FALSE]

\* ------------------------------------------- variant A's candidate loop
\* The reporter's own lost items taken for candidates.
IsOwnPostNever(item, f) == FALSE

\* if (item.user_id === found.user_id) continue;
IsOwnPost(item, f) == item.user_id = f.user_id

NoCandidates ==
  [recipients |-> <<>>, missing |-> <<>>, usedContact |-> {}, lookupFor |-> {}]

RECURSIVE CandidateLoopA(_, _, _, _)
\* for (const item of lostItems) { ... } from item i on, acc so far
CandidateLoopA(items, f, i, acc) ==
  IF i > Len(items) THEN acc
  ELSE LET item == items[i] IN
       IF IsOwnPost(item, f) THEN CandidateLoopA(items, f, i + 1, acc)
       ELSE IF isEmail(item.contact_info)
       THEN CandidateLoopA(items, f, i + 1,
              [acc EXCEPT !.recipients = SetAdd(@, Trim(item.contact_info)),
                          !.usedContact = @ \cup {i}])
       ELSE CandidateLoopA(items, f, i + 1,
              [acc EXCEPT !.missing = SetAdd(@, item.user_id),
                          !.lookupFor = @ \cup {i}])

\* ------------------------------------------------------- e-mail provider
\* fetch("https://api.resend.com/emails"): 2xx, non-2xx with a body, non-2xx
\* whose body cannot be read, or a rejected request.
FetchOutcomes == {"ok", "non2xx", "non2xx_unreadable", "reject"}

Pending == [to |-> <<>>, ok |-> FALSE, detail |-> "<pending>"]

\* The value one element of variant A's Promise.all array resolves to.
ResultA(to, outcome) ==
  [to |-> to, ok |-> (outcome = "ok"),
   detail |-> IF outcome = "non2xx" THEN "provider error" ELSE Undefined]

\* The entry variant B pushes to failures.
FailureB(to, outcome) ==
  [to |-> to,
   error |-> IF outcome = "non2xx" THEN "provider error"
             ELSE IF outcome = "non2xx_unreadable" THEN "body unreadable"
             ELSE "fetch failed"]

\* results.filter((r) => r.ok).map((r) => r.to)
Successes(res) ==
  LET ok == SelectSeq(res, LAMBDA r : r.ok) IN [i \in 1..Len(ok) |-> ok[i].to]

\* The test for an empty recipient list left out.
NoRecipientsNever(list) == FALSE

\* if (toList.length === 0)
NoRecipients(list) == Len(list) = 0

\* ---------------------------------------------------------------- requests
Methods == {"OPTIONS", "POST", "GET"}

\* Request bodies: not JSON, JSON without the found-item reference, or JSON
\* carrying it (the found item itself in variant A, its id in variant B).
BodiesA == {[kind |-> "invalid", foundItem |-> NoFound],
            [kind |-> "noref", foundItem |-> NoFound]}
           \cup {[kind |-> "ref", foundItem |-> f] : f \in FoundItemsA}

BodiesB == {[kind |-> "invalid", foundItem |-> NoFound],
            [kind |-> "noref", foundItem |-> NoFound],
            [kind |-> "ref", foundItem |-> NoFound]}

NoReq == [method |-> "none", body |-> [kind |-> "none", foundItem |-> NoFound]]

\* ------------------------------------------------------------------- Init
Idle ==
  /\ pc = "idle"
  /\ req = NoReq
  /\ found = NoFound
  /\ lostItems = <<>>
  /\ recipients = <<>>
  /\ missingEmailUserIds = <<>>
  /\ idx = 1
  /\ usedContact = {}
  /\ lookupFor = {}
  /\ lookedUp = <<>>
  /\ toList = <<>>
  /\ mail = NoMail
  /\ attempts = <<>>
  /\ results = <<>>
  /\ sent = 0
  /\ failures = <<>>
  /\ resp = NoResp
  /\ storeFailed = FALSE

Init ==
  /\ variant \in {"A", "B"}
  /\ env \in [supabase : BOOLEAN, resendKey : BOOLEAN]
  /\ Idle

Finish(r) == resp' = r /\ pc' = "done"

\* ------------------------------------------------ variant A: the handler
\* Method check, body parsing, payload validation, store configuration.
A_Receive ==
  /\ variant = "A" /\ pc = "idle"
  /\ \E m \in Methods, b \in BodiesA :
       /\ req' = [method |-> m, body |-> b]
       /\ IF m = "OPTIONS" THEN Finish(Text(200, "ok")) /\ found' = found
          ELSE IF m # "POST"
          THEN Finish(Text(405, "Method Not Allowed")) /\ found' = found
          ELSE IF b.kind = "invalid"
          THEN Finish(Json(400, [error |-> "Invalid JSON body"])) /\ found' = found
          ELSE IF \/ b.kind = "noref"
                  \/ ~TruthyTxt(b.foundItem.category)
                  \/ ~TruthyTxt(b.foundItem.user_id)
          THEN /\ Finish(Json(400, [error |-> "Missing required foundItem payload"]))
               /\ found' = found
          ELSE IF ~env.supabase
          THEN /\ Finish(Json(500, [error |-> "Server missing Supabase configuration"]))
               /\ found' = found
          ELSE /\ found' = b.foundItem
               /\ pc' = "queryLost"
               /\ resp' = resp
  /\ UNCHANGED <<variant, env, lostItems, recipients, missingEmailUserIds, idx,
                 usedContact, lookupFor, lookedUp, toList, mail, attempts,
                 results, sent, failures, storeFailed>>

\* The lost-items query and the loop over its rows.
A_QueryLost ==
  /\ variant = "A" /\ pc = "queryLost"
  /\ \E q \in QueryResults :
       IF lostError(q)
       THEN /\ Finish(Json(500, [error |-> "Failed querying lost items",
                                 details |-> "store error"]))
            /\ storeFailed' = q.error
            /\ UNCHANGED <<lostItems, recipients, missingEmailUserIds,
                           usedContact, lookupFor>>
       ELSE LET rows == LostQueryA(q.table, found)
                acc == CandidateLoopA(rows, found, 1, NoCandidates)
            IN /\ lostItems' = rows
               /\ recipients' = acc.recipients
               /\ missingEmailUserIds' = acc.missing
               /\ usedContact' = acc.usedContact
               /\ lookupFor' = acc.lookupFor
               /\ storeFailed' = q.error
               /\ pc' = IF acc.missing = <<>> THEN "resolved" ELSE "lookup"
               /\ resp' = resp
  /\ UNCHANGED <<variant, env, req, found, idx, lookedUp, toList, mail,
                 attempts, results, sent, failures>>

\* One turn of the loop over missingEmailUserIds.
A_Lookup ==
  /\ variant = "A" /\ pc = "lookup"
  /\ LET uid == missingEmailUserIds[idx] IN
     \E res \in LookupResults(uid) :
       LET out == ResolveLookupA(recipients, res) IN
       /\ lookedUp' = Append(lookedUp, [uid |-> uid, res |-> res])
       /\ IF out.rethrown
          THEN Finish(RuntimeError) /\ UNCHANGED <<recipients, idx>>
          ELSE /\ recipients' = out.recipients
               /\ idx' = idx + 1
               /\ pc' = IF idx = Len(missingEmailUserIds) THEN "resolved" ELSE "lookup"
               /\ resp' = resp
  /\ UNCHANGED <<variant, env, req, found, lostItems, missingEmailUserIds,
                 usedContact, lookupFor, toList, mail, attempts, results,
                 sent, failures, storeFailed>>

\* The recipient list is final: answer at once, or start one fetch each.
A_Dispatch ==
  /\ variant = "A" /\ pc = "resolved"
  /\ toList' = recipients
  /\ IF NoRecipients(recipients)
     THEN /\ Finish(Json(200, [message |-> "No recipients to notify",
                               recipients |-> <<>>]))
          /\ UNCHANGED <<mail, attempts, results>>
     ELSE /\ mail' = composeEmail(found)
          /\ IF ~env.resendKey
             THEN /\ Finish(Json(200, [message |-> "Email provider not configured",
                                       wouldNotify |-> recipients,
                                       subject |-> composeEmail(found).subject]))
                  /\ UNCHANGED <<attempts, results>>
             ELSE /\ attempts' = recipients
                  /\ results' = [i \in 1..Len(recipients) |-> Pending]
                  /\ pc' = IF recipients = <<>> THEN "summary" ELSE "sending"
                  /\ resp' = resp
  /\ UNCHANGED <<variant, env, req, found, lostItems, recipients,
                 missingEmailUserIds, idx, usedContact, lookupFor, lookedUp,
                 sent, failures, storeFailed>>

\* One of the concurrent fetches settles; a rejected one rejects Promise.all
\* and with it the handler.
A_Settle ==
  /\ variant = "A" /\ pc = "sending"
  /\ \E i \in 1..Len(results), outcome \in FetchOutcomes :
       /\ results[i] = Pending
       /\ IF outcome = "reject"
          THEN Finish(RuntimeError) /\ results' = results
          ELSE LET done == [results EXCEPT ![i] = ResultA(toList[i], outcome)] IN
               /\ results' = done
               /\ pc' = IF \E j \in 1..Len(done) : done[j] = Pending
                        THEN "sending" ELSE "summary"
               /\ resp' = resp
  /\ UNCHANGED <<variant, env, req, found, lostItems, recipients,
                 missingEmailUserIds, idx, usedContact, lookupFor, lookedUp,
                 toList, mail, attempts, sent, failures, storeFailed>>

\* successes / failures of the settled fetches.
A_Respond ==
  /\ variant = "A" /\ pc = "summary"
  /\ Finish(Json(200, [successes |-> Successes(results),
                       failures |-> SelectSeq(results, LAMBDA r : ~r.ok)]))
  /\ UNCHANGED <<variant, env, req, found, lostItems, recipients,
                 missingEmailUserIds, idx, usedContact, lookupFor, lookedUp,
                 toList, mail, attempts, results, sent, failures, storeFailed>>

\* ------------------------------------------------ variant B: the handler
\* catch (err) { return 500 { error: err?.message ?? String(err) } }
CaughtB(message) == Json(500, [error |-> message])

\* Method check, configuration, body parsing, foundItemId check.
B_Receive ==
  /\ variant = "B" /\ pc = "idle"
  /\ \E m \in Methods, b \in BodiesB :
       /\ req' = [method |-> m, body |-> b]
       /\ IF m = "OPTIONS" THEN Finish(Text(200, "ok"))
          ELSE IF m # "POST"
          THEN Finish(Json(405, [error |-> "Method not allowed"]))
          ELSE IF ~env.supabase
          THEN Finish(Json(500, [error |-> "Missing Supabase environment config"]))
          ELSE IF ~env.resendKey
          THEN Finish(Json(500, [error |-> "Missing RESEND_API_KEY secret"]))
          ELSE IF b.kind # "ref"
          THEN Finish(Json(400, [error |-> "foundItemId is required"]))
          ELSE pc' = "fetchFound" /\ resp' = resp
  /\ UNCHANGED <<variant, env, found, lostItems, recipients,
                 missingEmailUserIds, idx, usedContact, lookupFor, lookedUp,
                 toList, mail, attempts, results, sent, failures, storeFailed>>

\* .from("items").select(...).eq("id", foundItemId).single()
B_FetchFound ==
  /\ variant = "B" /\ pc = "fetchFound"
  /\ \/ /\ Finish(CaughtB("found item query failed"))
        /\ storeFailed' = TRUE
        /\ found' = found
     \/ \E f \in FoundItemsB :
          /\ found' = f
          /\ pc' = "queryLost"
          /\ UNCHANGED <<resp, storeFailed>>
  /\ UNCHANGED <<variant, env, req, lostItems, recipients,
                 missingEmailUserIds, idx, usedContact, lookupFor, lookedUp,
                 toList, mail, attempts, results, sent, failures>>

\* The lost-items query, the reporter filtered out by the store.
B_QueryLost ==
  /\ variant = "B" /\ pc = "queryLost"
  /\ \E q \in QueryResults :
       IF q.error
       THEN /\ Finish(CaughtB("lost items query failed"))
            /\ storeFailed' = TRUE
            /\ UNCHANGED <<lostItems, idx>>
       ELSE LET rows == LostQueryB(q.table, found) IN
            /\ lostItems' = rows
            /\ idx' = 1
            /\ pc' = IF rows = <<>> THEN "resolved" ELSE "resolve"
            /\ UNCHANGED <<resp, storeFailed>>
  /\ UNCHANGED <<variant, env, req, found, recipients, missingEmailUserIds,
                 usedContact, lookupFor, lookedUp, toList, mail, attempts,
                 results, sent, failures>>

NextRowB == /\ idx' = idx + 1
            /\ pc' = IF idx = Len(lostItems) THEN "resolved" ELSE "resolve"

\* if (contact && contact.includes("@")) toEmailsSet.add(contact.trim())
B_UseContact ==
  /\ variant = "B" /\ pc = "resolve"
  /\ HasAt(lostItems[idx].contact_info)
  /\ recipients' = SetAdd(recipients, Trim(lostItems[idx].contact_info))
  /\ usedContact' = usedContact \cup {idx}
  /\ NextRowB
  /\ UNCHANGED <<variant, env, req, found, lostItems, missingEmailUserIds,
                 lookupFor, lookedUp, toList, mail, attempts, results, sent,
                 failures, resp, storeFailed>>

\* else if (li.user_id) { try { getUserById } catch {} }
B_Lookup ==
  /\ variant = "B" /\ pc = "resolve"
  /\ ~HasAt(lostItems[idx].contact_info)
  /\ TruthyTxt(lostItems[idx].user_id)
  /\ LET uid == lostItems[idx].user_id IN
     \E res \in LookupResults(uid) :
       /\ lookedUp' = Append(lookedUp, [uid |-> uid, res |-> res])
       /\ recipients' = ResolveLookupB(recipients, res).recipients
  /\ lookupFor' = lookupFor \cup {idx}
  /\ NextRowB
  /\ UNCHANGED <<variant, env, req, found, lostItems, missingEmailUserIds,
                 usedContact, toList, mail, attempts, results, sent,
                 failures, resp, storeFailed>>

\* A row with neither an "@" contact nor an owner is passed over.
B_Skip ==
  /\ variant = "B" /\ pc = "resolve"
  /\ ~HasAt(lostItems[idx].contact_info)
  /\ ~TruthyTxt(lostItems[idx].user_id)
  /\ NextRowB
  /\ UNCHANGED <<variant, env, req, found, lostItems, recipients,
                 missingEmailUserIds, usedContact, lookupFor, lookedUp,
                 toList, mail, attempts, results, sent, failures, resp,
                 storeFailed>>

\* toEmails, the counters and the message, before the send loop.
B_StartSend ==
  /\ variant = "B" /\ pc = "resolved"
  /\ toList' = recipients
  /\ sent' = 0
  /\ failures' = <<>>
  /\ mail' = composeMatchEmailB(found)
  /\ idx' = 1
  /\ pc' = IF recipients = <<>> THEN "summary" ELSE "sending"
  /\ UNCHANGED <<variant, env, req, found, lostItems, recipients,
                 missingEmailUserIds, usedContact, lookupFor, lookedUp,
                 attempts, results, resp, storeFailed>>

\* One turn of the send loop, inside its own try/catch.
B_Send ==
  /\ variant = "B" /\ pc = "sending"
  /\ \E outcome \in FetchOutcomes :
       /\ attempts' = Append(attempts, toList[idx])
       /\ IF outcome = "ok"
          THEN sent' = sent + 1 /\ failures' = failures
          ELSE sent' = sent /\ failures' = Append(failures, FailureB(toList[idx], outcome))
  /\ idx' = idx + 1
  /\ pc' = IF idx = Len(toList) THEN "summary" ELSE "sending"
  /\ UNCHANGED <<variant, env, req, found, lostItems, recipients,
                 missingEmailUserIds, usedContact, lookupFor, lookedUp,
                 toList, mail, results, resp, storeFailed>>

\* The summary: category, number of recipients, sent, failures.
B_Respond ==
  /\ variant = "B" /\ pc = "summary"
  /\ Finish(Json(200, [category |-> found.category,
                       recipients |-> Len(toList),
                       sent |-> sent,
                       failures |-> failures]))
  /\ UNCHANGED <<variant, env, req, found, lostItems, recipients,
                 missingEmailUserIds, idx, usedContact, lookupFor, lookedUp,
                 toList, mail, attempts, results, sent, failures, storeFailed>>

\* ------------------------------------------------------------------- Spec
Next ==
  \/ A_Receive
  \/ A_QueryLost
  \/ A_Lookup
  \/ A_Dispatch
  \/ A_Settle
  \/ A_Respond
  \/ B_Receive
  \/ B_FetchFound
  \/ B_QueryLost
  \/ B_UseContact
  \/ B_Lookup
  \/ B_Skip
  \/ B_StartSend
  \/ B_Send
  \/ B_Respond

Spec == Init /\ [][Next]_vars

\* ------------------------------------------- the templates on their own
InitCompose ==
  /\ variant = "A"
  /\ env = [supabase |-> TRUE, resendKey |-> TRUE]
  /\ pc = "compose"
  /\ req = NoReq
  /\ found \in ComposeInputs
  /\ lostItems = <<>>
  /\ recipients = <<>>
  /\ missingEmailUserIds = <<>>
  /\ idx = 1
  /\ usedContact = {}
  /\ lookupFor = {}
  /\ lookedUp = <<>>
  /\ toList = <<>>
  /\ mail = NoMail
  /\ attempts = <<>>
  /\ results = <<>>
  /\ sent = 0
  /\ failures = <<>>
  /\ resp = NoResp
  /\ storeFailed = FALSE

Composed(m) ==
  /\ pc = "compose"
  /\ mail' = m
  /\ pc' = "composed"
  /\ UNCHANGED <<variant, env, req, found, lostItems, recipients,
                 missingEmailUserIds, idx, usedContact, lookupFor, lookedUp,
                 toList, attempts, results, sent, failures, resp, storeFailed>>

CallComposeFoundMatchEmail == Composed(composeFoundMatchEmail(found))

CallComposeEmail == Composed(composeEmail(found))

NextCompose == CallComposeFoundMatchEmail \/ CallComposeEmail

SpecCompose == InitCompose /\ [][NextCompose]_vars

\* ------------------------------------------------------------ properties
NoDuplicates(seq) == \A i, j \in 1..Len(seq) : seq[i] = seq[j] => i = j

\* The request got as far as querying for candidates and the store answered.
ResolutionReached ==
  /\ found # NoFound
  /\ ~storeFailed
  /\ pc \in {"lookup", "resolve", "resolved", "sending", "summary", "done"}

\* Recipient resolution has run to its end.
ResolutionDone ==
  /\ found # NoFound
  /\ ~storeFailed
  /\ pc \in {"resolved", "sending", "summary", "done"}

\* Rows of the query result that are candidates: not owned by the reporter.
Candidates == {i \in 1..Len(lostItems) : lostItems[i].user_id # found.user_id}

LookupFailed(l) == l.res.thrown \/ l.res.error
LookupGaveEmail(l) == ~l.res.thrown /\ ~l.res.error /\ Truthy(l.res.email)

\* C1: once the request reaches recipient resolution, no lost item owned by
\* the found item's reporter has had its contact string used or has caused
\* an account lookup, and the reporter's account has not been looked up.
Thm_C1_ReporterExcluded ==
  (ResolutionReached /\ TruthyTxt(found.user_id)) =>
     /\ \A i \in usedContact \cup lookupFor : lostItems[i].user_id # found.user_id
     /\ \A k \in 1..Len(lookedUp) : lookedUp[k].uid # found.user_id

\* The query returned a lost item of the reporter with a well-formed address
\* next to another owner's item that was used.
Wit_C1 ==
  /\ variant = "A" /\ pc = "resolved"
  /\ usedContact # {}
  /\ \E i \in 1..Len(lostItems) :
       /\ lostItems[i].user_id = found.user_id
       /\ isEmail(lostItems[i].contact_info)
       /\ lostItems[i].category = found.category

\* C2: with the provider credential set and a non-empty recipient list, the
\* request ends with status 200, one delivery attempt per recipient, and an
\* outcome for every recipient in the summary, whatever the other attempts
\* did (non-2xx answer or rejected request).
Cex_C2_EveryOutcomeReported ==
  (pc = "done" /\ ResolutionDone /\ env.resendKey /\ toList # <<>>) =>
     /\ resp.status = 200
     /\ attempts = toList
     /\ IF variant = "A"
        THEN \A i \in 1..Len(toList) :
               \/ toList[i] \in Range(resp.body.successes)
               \/ \E k \in 1..Len(resp.body.failures) :
                    resp.body.failures[k].to = toList[i]
        ELSE /\ resp.body.sent + Len(resp.body.failures) = Len(toList)
             /\ \A k \in 1..Len(resp.body.failures) :
                  resp.body.failures[k].to \in Range(toList)
             /\ NoDuplicates([k \in 1..Len(resp.body.failures) |->
                                resp.body.failures[k].to])

\* C3: after resolution, every candidate whose contact string has the e-mail
\* shape has that string among the recipients and caused no account lookup,
\* and no candidate whose contact string lacks the shape had it used.
Cex_C3_OnlyShapedContactsUsed ==
  ResolutionDone =>
     \A i \in Candidates :
        LET c == lostItems[i].contact_info IN
        /\ isEmail(c) => (Trim(c) \in Range(recipients) /\ i \notin lookupFor)
        /\ ~isEmail(c) => i \notin usedContact

\* C4: a valid POST with the store configured and answering, and no provider
\* credential, ends with status 200, the intended recipients listed and no
\* delivery attempt.
Cex_C4_NoCredentialIsNoOp ==
  (/\ pc = "done"
   /\ req.method = "POST"
   /\ req.body.kind = "ref"
   /\ variant = "A" => (/\ TruthyTxt(req.body.foundItem.category)
                        /\ TruthyTxt(req.body.foundItem.user_id))
   /\ env.supabase
   /\ ~env.resendKey
   /\ ~storeFailed) =>
     /\ resp.status = 200
     /\ attempts = <<>>
     /\ \/ "recipients" \in DOMAIN resp.body /\ resp.body.recipients = toList
        \/ "wouldNotify" \in DOMAIN resp.body /\ resp.body.wouldNotify = toList

\* The summary names no recipient: an empty list (A), a count of 0 (B).
ReportsNoRecipients ==
  /\ "recipients" \in DOMAIN resp.body
  /\ IF variant = "A" THEN resp.body.recipients = <<>>
     ELSE /\ resp.body.recipients = 0
          /\ resp.body.sent = 0
          /\ resp.body.failures = <<>>

\* C5: when recipient resolution ends with no recipient, the request ends
\* with status 200, reports no recipients and makes no delivery attempt.
Thm_C5_NoRecipientsIsSuccess ==
  /\ (ResolutionDone /\ recipients = <<>>) => attempts = <<>>
  /\ (pc = "done" /\ ResolutionDone /\ recipients = <<>>) =>
        (resp.status = 200 /\ ReportsNoRecipients)

\* Every lookup failed and the only other candidate row is the reporter's.
Wit_C5 ==
  /\ pc = "done" /\ ResolutionDone /\ recipients = <<>>
  /\ lookedUp # <<>>
  /\ \A k \in 1..Len(lookedUp) : LookupFailed(lookedUp[k])
  /\ Candidates # 1..Len(lostItems)

\* The recipients the processed candidates account for: trimmed contact
\* strings that were used, and e-mails of lookups that succeeded.
ExpectedRecipients ==
  {Trim(lostItems[i].contact_info) : i \in usedContact}
  \cup {lookedUp[k].res.email :
          k \in {n \in 1..Len(lookedUp) : LookupGaveEmail(lookedUp[n])}}

\* Every candidate was handled: its contact used, its owner looked up, or
\* (variant B) passed over for want of an owner.
AllCandidatesProcessed ==
  IF variant = "A"
  THEN /\ Candidates = usedContact \cup lookupFor
       /\ Len(lookedUp) = Len(missingEmailUserIds)
       /\ \A k \in 1..Len(lookedUp) : lookedUp[k].uid = missingEmailUserIds[k]
       /\ \A i \in lookupFor : lostItems[i].user_id \in Range(missingEmailUserIds)
  ELSE /\ \A i \in 1..Len(lostItems) :
            \/ i \in usedContact
            \/ i \in lookupFor
            \/ ~TruthyTxt(lostItems[i].user_id)
       /\ Len(lookedUp) = Cardinality(lookupFor)

\* C6: a failing account lookup (error result or exception) adds no
\* recipient, the remaining candidates are still resolved, and resolution
\* ends without a response having been produced by it.
Thm_C6_LookupFailureNonFatal ==
  /\ ResolutionDone =>
        (AllCandidatesProcessed /\ Range(recipients) = ExpectedRecipients)
  /\ pc = "resolved" => resp = NoResp

\* A lookup failed and a later one still contributed its e-mail.
Wit_C6 ==
  /\ pc = "resolved"
  /\ \E k, n \in 1..Len(lookedUp) :
       /\ k < n
       /\ LookupFailed(lookedUp[k])
       /\ LookupGaveEmail(lookedUp[n])
       /\ lookedUp[n].res.email \in Range(recipients)

\* C7: no address is twice in the recipient list and none gets more than
\* one delivery attempt.
Thm_C7_NoDuplicateRecipients ==
  /\ NoDuplicates(recipients)
  /\ NoDuplicates(toList)
  /\ NoDuplicates(attempts)

\* Two candidates resolved to one address and it was sent to.
Wit_C7 ==
  /\ pc = "done"
  /\ attempts # <<>>
  /\ Cardinality(usedContact)
       + Cardinality({n \in 1..Len(lookedUp) : LookupGaveEmail(lookedUp[n])})
     > Len(toList)

\* C8: when the found-item query or the lost-items query fails, the request
\* ends with status 500 and a JSON error, and no account was looked up and
\* no delivery attempted.
Thm_C8_StoreFailureFatal ==
  storeFailed =>
     /\ pc = "done"
     /\ resp.status = 500
     /\ resp.ctype = "json"
     /\ "error" \in DOMAIN resp.body
     /\ recipients = <<>>
     /\ lookedUp = <<>>
     /\ attempts = <<>>

\* The lost-items query failed after the found item was known.
Wit_C8 == storeFailed /\ found # NoFound /\ pc = "done"

\* C9: wrong method (405), invalid or missing found-item reference (400),
\* missing store configuration and store query failure (500) are all
\* answered with a JSON object that has an error field.
Cex_C9_FailuresAreJsonErrors ==
  (pc = "done" /\ resp.status \in {400, 405, 500} /\ resp # RuntimeError) =>
     (resp.ctype = "json" /\ "error" \in DOMAIN resp.body)

HasLine(html, labels) == \E k \in 1..Len(html) : html[k] \in labels

DescriptionLabels == {"Description: ", "<li><strong>Description:</strong> "}
LocationLabels == {"Location: ", "<li><strong>Location:</strong> "}

\* C10: the composed subject contains the category; the html contains the
\* category and the title, a description line with the description exactly
\* when the description is non-empty, and a location line with the location
\* exactly when the location is non-empty.
Thm_C10_ComposeRendersFields ==
  pc = "composed" =>
     /\ Contains(mail.subject, <<found.category>>)
     /\ Contains(mail.html, <<found.category>>)
     /\ Contains(mail.html, <<found.title>>)
     /\ HasLine(mail.html, DescriptionLabels) <=> TruthyTxt(found.description)
     /\ TruthyTxt(found.description) => Contains(mail.html, <<found.description>>)
     /\ HasLine(mail.html, LocationLabels) <=> TruthyTxt(found.location)
     /\ TruthyTxt(found.location) => Contains(mail.html, <<found.location>>)

\* composeFoundMatchEmail ran on an item with a description and no location.
Wit_C10 ==
  /\ pc = "composed"
  /\ mail.by = "composeFoundMatchEmail"
  /\ TruthyTxt(found.description)
  /\ ~TruthyTxt(found.location)

====
